---- MODULE Spec2Model ----
(***************************************************************************)
(* Model of google_apps_script.js: the three entry points                  *)
(* importBirthdayData, setupBirthdaySheet and sortByStatusPriority acting  *)
(* on the active sheet of a spreadsheet.  Every call into the spreadsheet  *)
(* service is one step, so that a failing call and a second run can be     *)
(* placed between any two calls.                                           *)
(***************************************************************************)
EXTENDS Integers, Sequences, FiniteSets, TLC

(* ------------------------------ bounds -------------------------------- *)

\* Most Records a sheet holds when sortByStatusPriority is invoked.
MaxRecords == 3
\* Most Records a sheet holds when importBirthdayData / setupBirthdaySheet
\* is invoked.
MaxPrior == 2
\* Most Records a sheet holds when two runs of sortByStatusPriority race.
MaxRace == 2

(* ---------------------------- the sheet ------------------------------- *)

\* Columns of the fixed schema (the three names of `headers`).
NumCols == 3

MaxOf(a, b) == IF a >= b THEN a ELSE b

\* Rows of the modelled part of the grid: Header + Records.
GridRows == 1 + MaxOf(MaxRecords, MaxOf(MaxPrior, MaxRace))

Blank == ""

BlankRow == [c \in 1..NumCols |-> Blank]

BlankGrid == [r \in 1..GridRows |-> BlankRow]

\* Formatting of one header cell; PlainFmt is what Sheet.clear() leaves.
PlainFmt == [weight |-> "normal", background |-> "#ffffff"]

HeaderFmt == [weight |-> "bold", background |-> "#e6f3ff"]

PlainRow == [c \in 1..NumCols |-> PlainFmt]

\* Column widths of a sheet nobody resized.
DefaultWidths == [c \in 1..NumCols |-> 100]

Procs == {1, 2}

VARIABLES
  cells,      \* the sheet's cell values, GridRows x NumCols
  fmt,        \* formatting of row 1, per column
  colWidth,   \* column widths
  log,        \* Logger: sequence of <<message, argument>>
  pc,         \* per run: the next call to make
  entry,      \* per run: the entry point invoked
  outcome,    \* per run: "none", "running", "returned" or "threw"
  dataRange,  \* per run: <<numRows, numColumns>> of the Range held
  headers,    \* per run: local `headers`
  dataRows,   \* per run: local `dataRows`
  response,   \* per run: local `csvData`, a sequence of CSV tokens
  parsedData, \* per run: local `parsedData`
  cells0,     \* the cell values when the run(s) started
  fmt0        \* the formatting when the run(s) started

vars == <<cells, fmt, colWidth, log, pc, entry, outcome, dataRange, headers,
          dataRows, response, parsedData, cells0, fmt0>>

locals == <<dataRange, headers, dataRows, response, parsedData>>

ghost == <<cells0, fmt0>>

(* ------------------------ spreadsheet service ------------------------- *)

RowIsBlank(g, r) == \A c \in 1..NumCols : g[r][c] = Blank

ColIsBlank(g, c) == \A r \in 1..GridRows : g[r][c] = Blank

\* Sheet.getDataRange(): the rectangle from A1 to the last row and the last
\* column holding content; one cell when the sheet is empty.
LastRow(g) ==
  LET used == {r \in 1..GridRows : ~RowIsBlank(g, r)}
  IN  IF used = {} THEN 1 ELSE CHOOSE r \in used : \A q \in used : q <= r

LastCol(g) ==
  LET used == {c \in 1..NumCols : ~ColIsBlank(g, c)}
  IN  IF used = {} THEN 1 ELSE CHOOSE c \in used : \A q \in used : q <= c

\* Off by one: the last row holding content is left out of the range.
GetDataRangeShort(g) == <<MaxOf(1, LastRow(g) - 1), LastCol(g)>>

GetDataRange(g) == <<LastRow(g), LastCol(g)>>

\* Range.getValues(): the current values of the rectangle, row by row.
GetValues(g, rng) == [r \in 1..rng[1] |-> [c \in 1..rng[2] |-> g[r][c]]]

\* Range.setValues() throws unless the array has the range's dimensions.
FitsRange(vals, nr, nc) ==
  /\ nr >= 1 /\ nc >= 1
  /\ Len(vals) = nr
  /\ \A r \in 1..nr : Len(vals[r]) = nc

\* getRange(row, 1, nr, nc).setValues(vals)
SetValues(g, row, nr, nc, vals) ==
  [r \in 1..GridRows |->
    [c \in 1..NumCols |->
      IF r >= row /\ r < row + nr /\ c <= nc THEN vals[r - row + 1][c]
      ELSE g[r][c]]]

\* getRange(1, 1, 1, nc).setFontWeight(w)
SetFontWeight(f, nc, w) ==
  [c \in 1..NumCols |-> IF c <= nc THEN [f[c] EXCEPT !.weight = w] ELSE f[c]]

\* The background is set on the first header cell only.
SetBackgroundFirstCell(f, nc, b) ==
  [c \in 1..NumCols |-> IF c = 1 THEN [f[c] EXCEPT !.background = b] ELSE f[c]]

\* getRange(1, 1, 1, nc).setBackground(b)
SetBackground(f, nc, b) ==
  [c \in 1..NumCols |-> IF c <= nc THEN [f[c] EXCEPT !.background = b] ELSE f[c]]

(* ----------------------------- the sort ------------------------------- *)

RankDefault == 999

\* Own keys of the object literal statusOrder.
StatusOrderOwn(key) ==
  CASE key = "Active"  -> 1
    [] key = "Dropout" -> 2
    [] key = "NA"      -> 3
    [] OTHER           -> 0

\* Keys every object literal inherits from Object.prototype; the value of
\* each is a function object (numbered here to tell them apart).
ProtoKeys == <<"constructor", "toString", "valueOf", "hasOwnProperty">>

ProtoId(key) == CHOOSE i \in 1..Len(ProtoKeys) : ProtoKeys[i] = key

IsProtoKey(key) == \E i \in 1..Len(ProtoKeys) : ProtoKeys[i] = key

\* statusOrder[key]: a JavaScript value <<type, payload>>.
StatusOrderGet(key) ==
  IF StatusOrderOwn(key) # 0 THEN <<"number", StatusOrderOwn(key)>>
  ELSE IF IsProtoKey(key) THEN <<"function", ProtoId(key)>>
  ELSE <<"undefined", 0>>

Truthy(v) ==
  CASE v[1] = "undefined" -> FALSE
    [] v[1] = "number"    -> v[2] # 0
    [] OTHER              -> TRUE

\* statusOrder[a[statusColumnIndex]] || 999
StatusOf(row, statusColumnIndex) ==
  LET v == StatusOrderGet(row[statusColumnIndex + 1])
  IN  IF Truthy(v) THEN v ELSE <<"number", RankDefault>>

\* statusA - statusB: a function object converts to NaN.
Minus(x, y) ==
  IF x[1] = "number" /\ y[1] = "number" THEN <<"number", x[2] - y[2]>>
  ELSE <<"NaN", 0>>

\* Order of the collation used by String.prototype.localeCompare: case is
\* a lower-level difference than the letter, so "amy" sorts before "Bob".
Collation == <<"", "1990-01-01", "amy", "Bob", "Client Name", "Client Status">>

CollationKey(s) == CHOOSE i \in 1..Len(Collation) : Collation[i] = s

LocaleCompare(s, t) ==
  IF CollationKey(s) < CollationKey(t) THEN -1
  ELSE IF CollationKey(s) > CollationKey(t) THEN 1 ELSE 0

\* The comparator passed to dataRows.sort.
Comparator(a, b, statusColumnIndex) ==
  LET statusA == StatusOf(a, statusColumnIndex)
      statusB == StatusOf(b, statusColumnIndex)
  IN  IF statusA # statusB THEN Minus(statusA, statusB)
      ELSE <<"number", LocaleCompare(a[1], b[1])>>

\* Array.prototype.sort reads a NaN from the comparator as +0.
SortCompare(a, b, idx) ==
  LET v == Comparator(a, b, idx) IN IF v[1] = "NaN" THEN 0 ELSE v[2]

Range(s) == {s[i] : i \in 1..Len(s)}

\* A consistent comparator in the sense of the language definition.
Consistent(rows, idx) ==
  \A a, b, c \in Range(rows) :
    /\ SortCompare(a, a, idx) = 0
    /\ (SortCompare(a, b, idx) < 0) = (SortCompare(b, a, idx) > 0)
    /\ (SortCompare(a, b, idx) = 0 /\ SortCompare(b, c, idx) = 0)
         => SortCompare(a, c, idx) = 0
    /\ (SortCompare(a, b, idx) < 0 /\ SortCompare(b, c, idx) <= 0)
         => SortCompare(a, c, idx) < 0
    /\ (SortCompare(a, b, idx) <= 0 /\ SortCompare(b, c, idx) < 0)
         => SortCompare(a, c, idx) < 0

Perms(n) == {p \in [1..n -> 1..n] : \A i, j \in 1..n : p[i] = p[j] => i = j}

\* Array.prototype.sort: with a consistent comparator the one stable
\* ordering; otherwise the order is implementation-defined, any
\* rearrangement of the elements.
SortOutcomes(rows, idx) ==
  LET n == Len(rows)
      ok(p) == \A i, j \in 1..n : i < j =>
                 LET v == SortCompare(rows[p[i]], rows[p[j]], idx)
                 IN  v < 0 \/ (v = 0 /\ p[i] < p[j])
      orders == IF Consistent(rows, idx) THEN {p \in Perms(n) : ok(p)}
                                         ELSE Perms(n)
  IN  {[i \in 1..n |-> rows[p[i]]] : p \in orders}

\* headers.indexOf(name): zero-based, -1 when absent.
IndexOf(hs, name) ==
  LET hit == {i \in 1..Len(hs) : hs[i] = name}
  IN  IF hit = {} THEN -1 ELSE (CHOOSE i \in hit : \A j \in hit : i <= j) - 1

\* Off by one: data.slice(2) drops the first Record with the Header.
SliceTwo(data) == [i \in 1..(Len(data) - 2) |-> data[i + 2]]

\* data.slice(1)
Slice1(data) == [i \in 1..(Len(data) - 1) |-> data[i + 1]]

\* Off by one: getNumRows() < 1 lets a Header-only table through.
NoDataToSortStrict(rng) == rng[1] < 1

\* dataRange.getNumRows() <= 1
NoDataToSort(rng) == rng[1] <= 1

(* ------------------------- steps of a run ----------------------------- *)

Goto(p, label) == pc' = [pc EXCEPT ![p] = label]

\* The entry point returns normally.
Return(p) ==
  /\ pc' = [pc EXCEPT ![p] = "done"]
  /\ outcome' = [outcome EXCEPT ![p] = "returned"]

\* An exception leaves the entry point and reaches the trigger.
Throw(p) ==
  /\ pc' = [pc EXCEPT ![p] = "done"]
  /\ outcome' = [outcome EXCEPT ![p] = "threw"]

LoggerLog(msg, arg) == log' = Append(log, <<msg, arg>>)

\* The trigger invokes entry point `name`, whose first call is `first`.
Begin(p, name, first) ==
  /\ entry' = [entry EXCEPT ![p] = name]
  /\ outcome' = [outcome EXCEPT ![p] = "running"]
  /\ Goto(p, first)
  /\ UNCHANGED <<cells, fmt, colWidth, log, locals, ghost>>

(* ----------------------- sortByStatusPriority ------------------------- *)

InvokeSort(p) ==
  /\ pc[p] = "idle"
  /\ Begin(p, "sortByStatusPriority", "sort_getDataRange")

\* getActiveSheet().getDataRange() and the first guard.
SortGetDataRange(p) ==
  /\ pc[p] = "sort_getDataRange"
  /\ dataRange' = [dataRange EXCEPT ![p] = GetDataRange(cells)]
  /\ IF NoDataToSort(dataRange'[p])
       THEN LoggerLog("No data to sort", "") /\ Return(p)
       ELSE Goto(p, "sort_getValues") /\ UNCHANGED <<log, outcome>>
  /\ UNCHANGED <<cells, fmt, colWidth, entry, headers, dataRows, response,
                 parsedData, ghost>>

\* dataRange.getValues(), the second guard and the in-memory sort.
SortGetValues(p) ==
  /\ pc[p] = "sort_getValues"
  /\ LET data == GetValues(cells, dataRange[p])
         hs == data[1]
         statusColumnIndex == IndexOf(hs, "Client Status")
     IN  IF statusColumnIndex = -1
           THEN /\ LoggerLog("Client Status column not found", "")
                /\ Return(p)
                /\ UNCHANGED <<headers, dataRows>>
           ELSE /\ headers' = [headers EXCEPT ![p] = hs]
                /\ \E sorted \in SortOutcomes(Slice1(data), statusColumnIndex) :
                     dataRows' = [dataRows EXCEPT ![p] = sorted]
                /\ Goto(p, "sort_clear")
                /\ UNCHANGED <<log, outcome>>
  /\ UNCHANGED <<cells, fmt, colWidth, entry, dataRange, response,
                 parsedData, ghost>>

\* sheet.clear(): contents and formats.
SortClear(p) ==
  /\ pc[p] = "sort_clear"
  /\ cells' = BlankGrid
  /\ fmt' = PlainRow
  /\ Goto(p, "sort_writeHeaders")
  /\ UNCHANGED <<colWidth, log, entry, outcome, locals, ghost>>

SortWriteHeaders(p) ==
  /\ pc[p] = "sort_writeHeaders"
  /\ FitsRange(<<headers[p]>>, 1, Len(headers[p]))
  /\ cells' = SetValues(cells, 1, 1, Len(headers[p]), <<headers[p]>>)
  /\ IF Len(dataRows[p]) > 0 THEN Goto(p, "sort_writeRows")
                              ELSE Goto(p, "sort_setFontWeight")
  /\ UNCHANGED <<fmt, colWidth, log, entry, outcome, locals, ghost>>

SortWriteRows(p) ==
  /\ pc[p] = "sort_writeRows"
  /\ FitsRange(dataRows[p], Len(dataRows[p]), Len(headers[p]))
  /\ cells' = SetValues(cells, 2, Len(dataRows[p]), Len(headers[p]), dataRows[p])
  /\ Goto(p, "sort_setFontWeight")
  /\ UNCHANGED <<fmt, colWidth, log, entry, outcome, locals, ghost>>

SortSetFontWeight(p) ==
  /\ pc[p] = "sort_setFontWeight"
  /\ fmt' = SetFontWeight(fmt, Len(headers[p]), "bold")
  /\ Goto(p, "sort_setBackground")
  /\ UNCHANGED <<cells, colWidth, log, entry, outcome, locals, ghost>>

SortSetBackground(p) ==
  /\ pc[p] = "sort_setBackground"
  /\ fmt' = SetBackground(fmt, Len(headers[p]), "#e6f3ff")
  /\ Goto(p, "sort_log")
  /\ UNCHANGED <<cells, colWidth, log, entry, outcome, locals, ghost>>

SortLog(p) ==
  /\ pc[p] = "sort_log"
  /\ LoggerLog("Data sorted by status priority", "")
  /\ Return(p)
  /\ UNCHANGED <<cells, fmt, colWidth, entry, locals, ghost>>

\* The calls of sortByStatusPriority into the spreadsheet service.
SortStoreCalls ==
  {"sort_getDataRange", "sort_getValues", "sort_clear",
   "sort_writeHeaders", "sort_writeRows", "sort_setFontWeight",
   "sort_setBackground"}

\* A service call throws; sortByStatusPriority has no try/catch.
SortCallFails(p) ==
  /\ pc[p] \in SortStoreCalls
  /\ Throw(p)
  /\ UNCHANGED <<cells, fmt, colWidth, log, entry, locals, ghost>>

(* ------------------------ importBirthdayData -------------------------- *)

InvokeImport(p) ==
  /\ pc[p] = "idle"
  /\ Begin(p, "importBirthdayData", "import_fetch")

\* The entry point's catch block: log the error and return normally.
Catch(p, error) ==
  /\ LoggerLog("Error importing data: ", error)
  /\ Return(p)

HeaderLine == <<"Client Name", ",", "Birthday", ",", "Client Status">>

\* Texts the URL may serve, as CSV tokens: fields, "," and "\n"; a lone
\* double quote opens a quoted field that is never closed.
CsvResponses ==
  {<<>>,
   HeaderLine,
   HeaderLine \o <<"\n", "amy", ",", "1990-01-01", ",", "Active">>,
   <<"Client Name", ",", "Client Status", "\n", "Bob", ",", "NA">>,
   HeaderLine \o <<"\n", "amy", ",", "1990-01-01">>,
   HeaderLine \o <<"\n", "\"", "amy", ",", "1990-01-01", ",", "Active">>}

\* The fetch also clears the sheet: clear hoisted above the fetch.
ImportFetchClearsFirst(p) ==
  /\ pc[p] = "import_fetch"
  /\ \E csv \in CsvResponses : response' = [response EXCEPT ![p] = csv]
  /\ cells' = BlankGrid
  /\ fmt' = PlainRow
  /\ Goto(p, "import_parseCsv")
  /\ UNCHANGED <<colWidth, log, entry, outcome, dataRange, headers,
                 dataRows, parsedData, ghost>>

\* UrlFetchApp.fetch(csvUrl).getContentText()
ImportFetch(p) ==
  /\ pc[p] = "import_fetch"
  /\ \E csv \in CsvResponses : response' = [response EXCEPT ![p] = csv]
  /\ Goto(p, "import_parseCsv")
  /\ UNCHANGED <<cells, fmt, colWidth, log, entry, outcome, dataRange, headers,
                 dataRows, parsedData, ghost>>

FirstIndex(toks, sep) ==
  CHOOSE k \in 1..Len(toks) : toks[k] = sep /\ \A j \in 1..(k - 1) : toks[j] # sep

RECURSIVE SplitOn(_, _)
SplitOn(toks, sep) ==
  IF \A k \in 1..Len(toks) : toks[k] # sep THEN <<toks>>
  ELSE LET k == FirstIndex(toks, sep)
       IN  <<SubSeq(toks, 1, k - 1)>> \o SplitOn(SubSeq(toks, k + 1, Len(toks)), sep)

\* Utilities.parseCsv throws on a quoted field that is never closed.
Malformed(toks) == Cardinality({k \in 1..Len(toks) : toks[k] = "\""}) % 2 = 1

\* Utilities.parseCsv: one row per line, one cell per field.
ParseCsv(toks) ==
  IF toks = <<>> THEN <<>>
  ELSE LET lines == SplitOn(toks, "\n")
       IN  [i \in 1..Len(lines) |->
             LET fields == SplitOn(lines[i], ",")
             IN  [j \in 1..Len(fields) |->
                   IF fields[j] = <<>> THEN Blank ELSE fields[j][1]]]

ImportParseCsv(p) ==
  /\ pc[p] = "import_parseCsv"
  /\ IF Malformed(response[p])
       THEN Catch(p, "parseCsv") /\ UNCHANGED parsedData
       ELSE /\ parsedData' = [parsedData EXCEPT ![p] = ParseCsv(response[p])]
            /\ Goto(p, "import_clear")
            /\ UNCHANGED <<log, outcome>>
  /\ UNCHANGED <<cells, fmt, colWidth, entry, dataRange, headers, dataRows,
                 response, ghost>>

\* getActiveSheet().clear(), then the test parsedData.length > 0.
ImportClear(p) ==
  /\ pc[p] = "import_clear"
  /\ cells' = BlankGrid
  /\ fmt' = PlainRow
  /\ IF Len(parsedData[p]) > 0
       THEN Goto(p, "import_setValues") /\ UNCHANGED outcome
       ELSE Return(p)
  /\ UNCHANGED <<colWidth, log, entry, locals, ghost>>

\* getRange(1, 1, rows, parsedData[0].length).setValues(parsedData)
ImportSetValues(p) ==
  /\ pc[p] = "import_setValues"
  /\ LET nr == Len(parsedData[p])
         nc == Len(parsedData[p][1])
     IN  IF FitsRange(parsedData[p], nr, nc)
           THEN /\ cells' = SetValues(cells, 1, nr, nc, parsedData[p])
                /\ Goto(p, "import_setFontWeight")
                /\ UNCHANGED <<log, outcome>>
           ELSE Catch(p, "setValues") /\ UNCHANGED cells
  /\ UNCHANGED <<fmt, colWidth, entry, locals, ghost>>

ImportSetFontWeight(p) ==
  /\ pc[p] = "import_setFontWeight"
  /\ fmt' = SetFontWeight(fmt, Len(parsedData[p][1]), "bold")
  /\ Goto(p, "import_setBackground")
  /\ UNCHANGED <<cells, colWidth, log, entry, outcome, locals, ghost>>

ImportSetBackground(p) ==
  /\ pc[p] = "import_setBackground"
  /\ fmt' = SetBackground(fmt, Len(parsedData[p][1]), "#e6f3ff")
  /\ Goto(p, "import_autoResizeColumns")
  /\ UNCHANGED <<cells, colWidth, log, entry, outcome, locals, ghost>>

\* sheet.autoResizeColumns(1, n): the service fits each of the n columns to
\* its content; the width it picks is its own affair.
ImportAutoResizeColumns(p) ==
  /\ pc[p] = "import_autoResizeColumns"
  /\ \E w \in [1..Len(parsedData[p][1]) -> {80, 160}] :
       colWidth' = [c \in 1..NumCols |->
                     IF c <= Len(parsedData[p][1]) THEN w[c] ELSE colWidth[c]]
  /\ Goto(p, "import_log")
  /\ UNCHANGED <<cells, fmt, log, entry, outcome, locals, ghost>>

Digits == <<"1", "2", "3", "4", "5", "6", "7", "8", "9">>

\* Number to string, as string concatenation does it.
NumberToString(n) == Digits[n]

ImportLog(p) ==
  /\ pc[p] = "import_log"
  /\ LoggerLog("Data imported successfully: ", NumberToString(Len(parsedData[p])))
  /\ Return(p)
  /\ UNCHANGED <<cells, fmt, colWidth, entry, locals, ghost>>

\* The calls of importBirthdayData that reach outside the script.
ImportExternalCalls ==
  <<"import_fetch", "import_clear", "import_setValues", "import_setFontWeight",
    "import_setBackground", "import_autoResizeColumns">>

\* What the failing call of each of them is called in the log.
ImportErrors ==
  <<"fetch", "clear", "setValues", "setFontWeight", "setBackground",
    "autoResizeColumns">>

\* A call throws inside the try block: the catch logs it.
ImportCallFails(p) ==
  /\ \E k \in 1..Len(ImportExternalCalls) :
       /\ pc[p] = ImportExternalCalls[k]
       /\ Catch(p, ImportErrors[k])
  /\ UNCHANGED <<cells, fmt, colWidth, entry, locals, ghost>>

(* ------------------------ setupBirthdaySheet -------------------------- *)

InvokeSetup(p) ==
  /\ pc[p] = "idle"
  /\ Begin(p, "setupBirthdaySheet", "setup_setValues")

SetupHeaders == <<"Client Name", "Birthday", "Client Status">>

\* Widths set for Client Name, Birthday, Client Status.
SetupWidths == <<200, 120, 120>>

\* getActiveSheet().getRange(1, 1, 1, headers.length).setValues([headers])
SetupSetValues(p) ==
  /\ pc[p] = "setup_setValues"
  /\ FitsRange(<<SetupHeaders>>, 1, Len(SetupHeaders))
  /\ cells' = SetValues(cells, 1, 1, Len(SetupHeaders), <<SetupHeaders>>)
  /\ Goto(p, "setup_setFontWeight")
  /\ UNCHANGED <<fmt, colWidth, log, entry, outcome, locals, ghost>>

SetupSetFontWeight(p) ==
  /\ pc[p] = "setup_setFontWeight"
  /\ fmt' = SetFontWeight(fmt, Len(SetupHeaders), "bold")
  /\ Goto(p, "setup_setBackground")
  /\ UNCHANGED <<cells, colWidth, log, entry, outcome, locals, ghost>>

SetupSetBackground(p) ==
  /\ pc[p] = "setup_setBackground"
  /\ fmt' = SetBackground(fmt, Len(SetupHeaders), "#e6f3ff")
  /\ Goto(p, "setup_setColumnWidth1")
  /\ UNCHANGED <<cells, colWidth, log, entry, outcome, locals, ghost>>

SetupWidthCalls ==
  <<"setup_setColumnWidth1", "setup_setColumnWidth2", "setup_setColumnWidth3",
    "setup_log">>

\* sheet.setColumnWidth(k, width), for k = 1, 2, 3 in turn.
SetupSetColumnWidth(p) ==
  /\ \E k \in 1..Len(SetupWidths) :
       /\ pc[p] = SetupWidthCalls[k]
       /\ colWidth' = [colWidth EXCEPT ![k] = SetupWidths[k]]
       /\ Goto(p, SetupWidthCalls[k + 1])
  /\ UNCHANGED <<cells, fmt, log, entry, outcome, locals, ghost>>

SetupLog(p) ==
  /\ pc[p] = "setup_log"
  /\ LoggerLog("Birthday sheet setup complete", "")
  /\ Return(p)
  /\ UNCHANGED <<cells, fmt, colWidth, entry, locals, ghost>>

\* A service call throws; setupBirthdaySheet has no try/catch.
SetupCallFails(p) ==
  /\ pc[p] \in {"setup_setValues", "setup_setFontWeight", "setup_setBackground",
               "setup_setColumnWidth1", "setup_setColumnWidth2",
               "setup_setColumnWidth3"}
  /\ Throw(p)
  /\ UNCHANGED <<cells, fmt, colWidth, log, entry, locals, ghost>>

(* ------------------------- initial states ----------------------------- *)

Names == {"amy", "Bob"}

Birthdays == {"1990-01-01"}

Statuses == {"Active", "Dropout", "NA", "", "constructor"}

RecordPool == {<<n, b, s>> : n \in Names, b \in Birthdays, s \in Statuses}

HeaderPool ==
  {<<"Client Name", "Birthday", "Client Status">>,
   <<"Client Name", "Client Status", "Birthday">>,
   <<"Client Name", "Birthday", "">>}

SeqsUpTo(S, n) == UNION {[1..k -> S] : k \in 0..n}

\* The grid holding header h in row 1 and the records below it.
GridOf(h, recs) ==
  [r \in 1..GridRows |->
    IF r = 1 THEN h ELSE IF r - 1 <= Len(recs) THEN recs[r - 1] ELSE BlankRow]

InitLocals ==
  /\ dataRange = [p \in Procs |-> <<1, 1>>]
  /\ headers = [p \in Procs |-> <<>>]
  /\ dataRows = [p \in Procs |-> <<>>]
  /\ response = [p \in Procs |-> <<>>]
  /\ parsedData = [p \in Procs |-> <<>>]

FormattedRow == [c \in 1..NumCols |-> HeaderFmt]

InitSheet(hs, n, fmts) ==
  /\ \E h \in hs, recs \in SeqsUpTo(RecordPool, n) : cells = GridOf(h, recs)
  /\ fmt \in fmts
  /\ colWidth = DefaultWidths
  /\ log = <<>>
  /\ cells0 = cells
  /\ fmt0 = fmt

InitRuns(active) ==
  /\ pc = [p \in Procs |-> IF p \in active THEN "idle" ELSE "off"]
  /\ entry = [p \in Procs |-> "none"]
  /\ outcome = [p \in Procs |-> "none"]
  /\ InitLocals

(* One run of sortByStatusPriority on any sheet, any call of which may fail. *)

Init == InitSheet(HeaderPool, MaxRecords, {FormattedRow}) /\ InitRuns({1})

Next ==
  \/ InvokeSort(1)
  \/ SortGetDataRange(1)
  \/ SortGetValues(1)
  \/ SortClear(1)
  \/ SortWriteHeaders(1)
  \/ SortWriteRows(1)
  \/ SortSetFontWeight(1)
  \/ SortSetBackground(1)
  \/ SortLog(1)
  \/ SortCallFails(1)

Spec == Init /\ [][Next]_vars

(* One run of importBirthdayData or setupBirthdaySheet on any sheet, any  *)
(* call of which may fail.                                                *)

InitLoad ==
  InitSheet(HeaderPool, MaxPrior, {PlainRow, FormattedRow}) /\ InitRuns({1})

NextLoad ==
  \/ InvokeImport(1)
  \/ ImportFetch(1)
  \/ ImportParseCsv(1)
  \/ ImportClear(1)
  \/ ImportSetValues(1)
  \/ ImportSetFontWeight(1)
  \/ ImportSetBackground(1)
  \/ ImportAutoResizeColumns(1)
  \/ ImportLog(1)
  \/ ImportCallFails(1)
  \/ InvokeSetup(1)
  \/ SetupSetValues(1)
  \/ SetupSetFontWeight(1)
  \/ SetupSetBackground(1)
  \/ SetupSetColumnWidth(1)
  \/ SetupLog(1)
  \/ SetupCallFails(1)

SpecLoad == InitLoad /\ [][NextLoad]_vars

(* Two runs of sortByStatusPriority on one sheet, no call failing, their  *)
(* calls interleaved in any way, on a sheet with the Header of the fixed   *)
(* schema.                                                                *)

RaceHeaderPool == {h \in HeaderPool : h = SetupHeaders}

InitRace == InitSheet(RaceHeaderPool, MaxRace, {FormattedRow}) /\ InitRuns(Procs)

NextRace ==
  \E p \in Procs :
    \/ InvokeSort(p)
    \/ SortGetDataRange(p)
    \/ SortGetValues(p)
    \/ SortClear(p)
    \/ SortWriteHeaders(p)
    \/ SortWriteRows(p)
    \/ SortSetFontWeight(p)
    \/ SortSetBackground(p)
    \/ SortLog(p)

SpecRace == InitRace /\ [][NextRace]_vars

(* ------------------------ notions of the claims ----------------------- *)

\* The Records of a table: the rows below the Header, down to the last
\* row holding content.
Records(g) == [i \in 1..(LastRow(g) - 1) |-> g[i + 1]]

\* Zero-based position of "Client Status" in the Header the run started on.
StatusIndex0 == IndexOf(cells0[1], "Client Status")

\* The table the run started on passes both guards.
PassesGuards0 == LastRow(cells0) > 1 /\ StatusIndex0 # -1

\* Rank of a Status as the specification defines it.
SpecRank(status) ==
  CASE status = "Active"  -> 1
    [] status = "Dropout" -> 2
    [] status = "NA"      -> 3
    [] OTHER              -> 999

Completed(p, name) ==
  entry[p] = name /\ pc[p] = "done" /\ outcome[p] = "returned"

\* The run of sortByStatusPriority went through to its last line.
SortCompleted ==
  /\ Completed(1, "sortByStatusPriority")
  /\ log = <<(<<"Data sorted by status priority", "">>)>>

Occurrences(row, rows) == Cardinality({i \in 1..Len(rows) : rows[i] = row})

SameMultiset(rows1, rows2) ==
  /\ Len(rows1) = Len(rows2)
  /\ \A row \in Range(rows1) \cup Range(rows2) :
       Occurrences(row, rows1) = Occurrences(row, rows2)

(* ------------------------------ claims -------------------------------- *)

\* C1: for a table with "Client Status" in its Header and at least one
\* Record, a completed sortByStatusPriority leaves the same number of rows,
\* the original Header in row 1, and the same multiset of Records.
C1_RecordsPreserved ==
  (SortCompleted /\ PassesGuards0) =>
    /\ LastRow(cells) = LastRow(cells0)
    /\ cells[1] = cells0[1]
    /\ SameMultiset(Records(cells), Records(cells0))

\* A completed run that moved rows of a table holding one Record twice.
C1_Witness ==
  /\ SortCompleted /\ PassesGuards0
  /\ cells # cells0
  /\ \E i, j \in 1..Len(Records(cells0)) :
       i < j /\ Records(cells0)[i] = Records(cells0)[j]

\* C2: in the table a completed sortByStatusPriority wrote, a Record of
\* lower rank (Active 1, Dropout 2, NA 3, anything else 999) stands before
\* every Record of higher rank.
C2_RankOrder ==
  (SortCompleted /\ PassesGuards0) =>
    \A i, j \in 1..Len(Records(cells)) :
      SpecRank(Records(cells)[i][StatusIndex0 + 1])
        < SpecRank(Records(cells)[j][StatusIndex0 + 1]) => i < j

\* C3: in the table a completed sortByStatusPriority wrote, Records of
\* equal rank stand in non-decreasing order of Name under localeCompare.
C3_NameOrder ==
  (SortCompleted /\ PassesGuards0) =>
    \A i, j \in 1..Len(Records(cells)) :
      (/\ i < j
       /\ SpecRank(Records(cells)[i][StatusIndex0 + 1])
            = SpecRank(Records(cells)[j][StatusIndex0 + 1]))
      => LocaleCompare(Records(cells)[i][1], Records(cells)[j][1]) <= 0

StatusKeys == {"Active", "Dropout", "NA"}

\* C4: every Status that is not a key of the priority mapping is compared
\* with rank 999, so its Record stands after every Active, Dropout and NA
\* Record of the table a completed sortByStatusPriority wrote.
C4_UnknownLast ==
  (SortCompleted /\ PassesGuards0) =>
    \A i \in 1..Len(Records(cells)) :
      Records(cells)[i][StatusIndex0 + 1] \notin StatusKeys =>
        /\ StatusOf(Records(cells)[i], StatusIndex0) = <<"number", 999>>
        /\ \A j \in 1..Len(Records(cells)) :
             Records(cells)[j][StatusIndex0 + 1] \in StatusKeys => j < i

\* What the run logs when a guard turns the table down.
GuardReason0 ==
  IF LastRow(cells0) <= 1 THEN "No data to sort"
  ELSE "Client Status column not found"

\* C5: when the table has only the Header row or no "Client Status"
\* column, sortByStatusPriority never reaches the clear, a write or a format
\* call, contents and formatting stay as they were, and the run that
\* returns has logged the reason.
C5_GuardNoOp ==
  (entry[1] = "sortByStatusPriority" /\ ~PassesGuards0) =>
    /\ cells = cells0 /\ fmt = fmt0 /\ colWidth = DefaultWidths
    /\ pc[1] \in {"sort_getDataRange", "sort_getValues", "done"}
    /\ outcome[1] = "returned" => log = <<(<<GuardReason0, "">>)>>

\* A table with Records but no "Client Status" column was turned down.
C5_Witness ==
  /\ Completed(1, "sortByStatusPriority")
  /\ LastRow(cells0) > 1 /\ StatusIndex0 = -1
  /\ log = <<(<<"Client Status column not found", "">>)>>

\* C9: a sortByStatusPriority that passed both guards has, from the moment
\* its format calls are done, the Header back in row 1 with every header
\* cell bold on #e6f3ff, although the clear removed the formatting.
C9_HeaderReformatted ==
  (/\ entry[1] = "sortByStatusPriority" /\ PassesGuards0
   /\ pc[1] = "sort_log" \/ SortCompleted) =>
    /\ cells[1] = cells0[1]
    /\ Records(cells) = dataRows[1]
    /\ \A c \in 1..LastCol(cells0) : fmt[c] = HeaderFmt

\* A completed run on a table whose Records it had to move.
C9_Witness ==
  /\ SortCompleted /\ PassesGuards0
  /\ cells # cells0
  /\ \A c \in 1..NumCols : fmt[c] = HeaderFmt

\* C6: whichever entry point runs and whichever call fails, no run ends
\* with an exception surfacing to the trigger.
C6_NoExceptionSurfaces == \A p \in Procs : outcome[p] # "threw"

\* The table holds exactly the rows of `rows`, from row 1 on.
Holds(rows) ==
  \A r \in 1..GridRows : \A c \in 1..NumCols :
    cells[r][c] = IF r <= Len(rows) /\ c <= Len(rows[r]) THEN rows[r][c] ELSE Blank

\* The run wrote the whole of its new content and its header formatting.
Rewritten(p) ==
  /\ outcome[p] = "returned"
  /\ \/ /\ entry[p] = "sortByStatusPriority"
        /\ headers[p] # <<>>
        /\ Holds(<<headers[p]>> \o dataRows[p])
        /\ \A c \in 1..Len(headers[p]) : fmt[c] = HeaderFmt
     \/ /\ entry[p] = "importBirthdayData"
        /\ parsedData[p] # <<>>
        /\ Holds(parsedData[p])
        /\ \A c \in 1..Len(parsedData[p][1]) : fmt[c] = HeaderFmt

\* C7: every run of importBirthdayData or sortByStatusPriority ends with
\* the table completely rewritten or unchanged from before the run, never
\* cleared or partially written.  (The log entry the claim also asks for in
\* the unchanged case is left out: the statement is the weaker for it.)
C7_RewrittenOrUnchanged ==
  \A p \in Procs :
    (pc[p] = "done" /\ entry[p] \in {"importBirthdayData", "sortByStatusPriority"})
      => Rewritten(p) \/ (cells = cells0 /\ fmt = fmt0)

BothDone == \A p \in Procs : pc[p] = "done"

\* The Records are those the run started on, once each, in sorted order.
SortedOriginal ==
  /\ LastRow(cells) = LastRow(cells0)
  /\ Records(cells) \in SortOutcomes(Records(cells0), StatusIndex0)

\* C10 as claimed: once two interleaved runs of sortByStatusPriority have
\* finished, the sheet holds the original Header followed by every original
\* Record exactly once, in sorted order.
C10_RaceKeepsRecords ==
  (BothDone /\ PassesGuards0) => cells[1] = cells0[1] /\ SortedOriginal

\* C10 as amended: once two interleaved runs have finished, the sheet holds
\* the original Header followed either by every original Record exactly
\* once in sorted order, or by no Record at all.
C10_RaceSortedOrEmptied ==
  (BothDone /\ PassesGuards0) =>
    /\ cells[1] = cells0[1]
    /\ SortedOriginal \/ LastRow(cells) = 1

\* Both runs went through to their last line; one of them read the rows
\* while they were cleared and wrote blank rows back, and the other's
\* sorted rows were written last.
C10_Witness ==
  /\ BothDone /\ PassesGuards0
  /\ Len(log) = 2
  /\ \A k \in 1..2 : log[k][1] = "Data sorted by status priority"
  /\ \E p \in Procs : \A i \in 1..Len(dataRows[p]) : dataRows[p][i] = BlankRow
  /\ SortedOriginal
  /\ cells # cells0

====
